---------------------------- MODULE Spec2Model ----------------------------
(***************************************************************************)
(* A model of pysplat (src/pysplat/__init__.py): the Transmitter/Receiver  *)
(* value objects and their projections, the splat_report_values pipeline   *)
(* (temporary workspace, input files, child process, report file) and the  *)
(* extraction of the three decimals from the report text.                  *)
(*                                                                         *)
(* Three specifications share the variables:                               *)
(*   Spec       concurrent invocations of splat_report_values              *)
(*   SpecParse  the report text and its extraction (lines 207-227)         *)
(*   SpecGeo    the Transmitter / Receiver objects and their projections   *)
(*                                                                         *)
(* Text is a sequence of one-character strings.  Decimal values are        *)
(* records [sign, coef, exp] as in Python's decimal module.                *)
(***************************************************************************)
EXTENDS Integers, Sequences, FiniteSets, TLC

VARIABLES
    \* ---- concurrent invocations of splat_report_values (Spec)
    pc,         \* where each invocation stands
    link,       \* the transmitter and receiver names each was called with
    wsdir,      \* the temporary directory each acquired
    fs,         \* the file system: directories and files, each with its creator
    handles,    \* the input files each invocation holds open
    child,      \* the child process of each invocation
    written,    \* what each invocation's own tool wrote as its report
    outcome,    \* what each invocation returned or raised
    trace,      \* the steps each invocation has taken, in order
    \* ---- report extraction (SpecParse)
    report,     \* the decoded text of the report file
    rpieces,    \* how many pieces the tool has written
    rphase,     \* "writing" while the tool writes it, "parsed" afterwards
    rmatch,     \* the groups of re.search on `report`
    routcome,   \* what lines 207-227 returned or raised for `report`
    \* ---- the value objects (SpecGeo)
    tx,         \* the Transmitter
    rx,         \* the Receiver
    txQth,      \* the last results of tx.to_qthfields()
    txLrp,      \* the last results of tx.to_lrpfields()
    rxQth       \* the last results of rx.to_qthfields()

pvars == <<pc, link, wsdir, fs, handles, child, written, outcome, trace>>

rvars == <<report, rpieces, rphase, rmatch, routcome>>

gvars == <<tx, rx, txQth, txLrp, rxQth>>

vars == <<pvars, rvars, gvars>>

(***************************************************************************)
(* Bounds of the model.                                                    *)
(***************************************************************************)
\* How many pieces of text the tool writes into one report.
MaxPieces == 4

\* How many invocations of splat_report_values run concurrently.
NumInv == 2

\* Longitudes range over the multiples of 22.5 degrees up to this many steps
\* either side of zero.
MaxSteps == 20

(***************************************************************************)
(* Characters and the literal parts of the regular expression              *)
(* (lines 210-214).                                                        *)
(***************************************************************************)
Digits == {"0", "1", "2", "3", "4", "5", "6", "7", "8", "9"}

\* An unescaped "." of the pattern: with re.DOTALL it matches any character.
AnyChar == "ANY"

\* r"Free space path loss: "
FreeSpaceLabel ==
    <<"F", "r", "e", "e", " ", "s", "p", "a", "c", "e", " ", "p", "a", "t",
      "h", " ", "l", "o", "s", "s", ":", " ">>

\* r"ITWOM Version 3.0 path loss: " : the "." between 3 and 0 is not escaped.
ItwomLabel ==
    <<"I", "T", "W", "O", "M", " ", "V", "e", "r", "s", "i", "o", "n", " ",
      "3", AnyChar, "0", " ", "p", "a", "t", "h", " ", "l", "o", "s", "s",
      ":", " ">>

\* r" dB"
DbSuffix == <<" ", "d", "B">>

\* r" dBuV/meter"
FieldSuffix == <<" ", "d", "B", "u", "V", "/", "m", "e", "t", "e", "r">>

NoMatch == [ok |-> FALSE]

\* A literal run of the pattern matches the text at position p.
LitAt(text, p, lit) ==
    /\ p + Len(lit) - 1 <= Len(text)
    /\ \A k \in 1..Len(lit) : lit[k] = AnyChar \/ text[p + k - 1] = lit[k]

\* \d* taken greedily from position a: the first position that is no digit.
RECURSIVE SkipDigits(_, _)
SkipDigits(text, a) ==
    IF a <= Len(text) /\ text[a] \in Digits
    THEN SkipDigits(text, a + 1)
    ELSE a

\* A group that also takes a leading minus sign: (-?\d*\.\d*).
SignLenMinus(text, a) ==
    IF a <= Len(text) /\ text[a] = "-" THEN 1 ELSE 0

\* How many characters of sign the group (\d*\.\d*) takes at position a:
\* none, the group holds digits and one point only.
SignLen(text, a) == 0

\* (\d*\.\d*) followed by the literal lit, tried at position a: the positions
\* just after the group for every way the two \d* may share out the digits.
\* The engine prefers the longer alternatives, i.e. the largest end.
GroupEnds(text, a, lit) ==
    LET b == a + SignLen(text, a)
        points == { k \in b .. SkipDigits(text, b) :
                      k <= Len(text) /\ text[k] = "." }
    IN  UNION { { e \in k + 1 .. SkipDigits(text, k + 1) :
                    LitAt(text, e, lit) } : k \in points }

SetMax(S) == CHOOSE x \in S : \A y \in S : y <= x

SetMin(S) == CHOOSE x \in S : \A y \in S : x <= y

\* The third group matched at position a.
Match3(text, a) ==
    [ok |-> TRUE, s3 |-> a, e3 |-> SetMax(GroupEnds(text, a, FieldSuffix))]

First3(text, starts) ==
    IF starts = {} THEN NoMatch ELSE Match3(text, SetMin(starts))

\* r".*?(\d*\.\d*) dBuV/meter" from position p: the lazy .*? grows one
\* character at a time until the rest matches, so the group starts at the
\* first position from p on where it can.
Lazy3(text, p) ==
    First3(text, { a \in p .. Len(text) :
                     GroupEnds(text, a, FieldSuffix) # {} })

Match2(b, e, r) ==
    [ok |-> TRUE, s2 |-> b, e2 |-> e, s3 |-> r.s3, e3 |-> r.e3]

\* Of the ways the second group can end, the engine takes the longest after
\* which the rest of the pattern matches.
Longest2(text, b, ends) ==
    IF ends = {} THEN NoMatch
    ELSE Match2(b, SetMax(ends), Lazy3(text, SetMax(ends) + Len(DbSuffix)))

\* r"ITWOM Version 3.0 path loss: (\d*\.\d*) dB" + the rest, tried at a.
At2(text, a, label) ==
    IF ~LitAt(text, a, label) THEN NoMatch
    ELSE Longest2(text, a + Len(label),
                  { e \in GroupEnds(text, a + Len(label), DbSuffix) :
                      Lazy3(text, e + Len(DbSuffix)).ok })

First2(text, starts, label) ==
    IF starts = {} THEN NoMatch ELSE At2(text, SetMin(starts), label)

\* r".*?" before the ITWOM label: the first position from p on where the
\* rest of the pattern matches.
Lazy2(text, p, label) ==
    First2(text, { a \in p .. Len(text) : At2(text, a, label).ok }, label)

Match1(b, e, r) ==
    [ok |-> TRUE, s1 |-> b, e1 |-> e,
     s2 |-> r.s2, e2 |-> r.e2, s3 |-> r.s3, e3 |-> r.e3]

Longest1(text, b, ends, label) ==
    IF ends = {} THEN NoMatch
    ELSE Match1(b, SetMax(ends),
                Lazy2(text, SetMax(ends) + Len(DbSuffix), label))

\* The whole pattern tried at start position s.
At1(text, s, label) ==
    IF ~LitAt(text, s, FreeSpaceLabel) THEN NoMatch
    ELSE Longest1(text, s + Len(FreeSpaceLabel),
                  { e \in GroupEnds(text, s + Len(FreeSpaceLabel), DbSuffix) :
                      Lazy2(text, e + Len(DbSuffix), label).ok },
                  label)

First1(text, starts, label) ==
    IF starts = {} THEN NoMatch ELSE At1(text, SetMin(starts), label)

\* re.search: the leftmost start position at which the pattern matches.
SearchFrom(text, p, label) ==
    First1(text, { s \in p .. Len(text) : At1(text, s, label).ok }, label)

\* matches = re.search(<pattern>, report_text, flags=re.DOTALL)
ReSearch(text) == SearchFrom(text, 1, ItwomLabel)

\* matches.group(n)
Group(text, m, n) ==
    CASE n = 1 -> SubSeq(text, m.s1, m.e1 - 1)
      [] n = 2 -> SubSeq(text, m.s2, m.e2 - 1)
      [] n = 3 -> SubSeq(text, m.s3, m.e3 - 1)

(***************************************************************************)
(* decimal.Decimal(str) for the strings a group can hold: an optional      *)
(* sign, digits and at most one point.  A string without any digit raises  *)
(* decimal.InvalidOperation.                                               *)
(***************************************************************************)
DigitVal ==
    "0" :> 0 @@ "1" :> 1 @@ "2" :> 2 @@ "3" :> 3 @@ "4" :> 4 @@
    "5" :> 5 @@ "6" :> 6 @@ "7" :> 7 @@ "8" :> 8 @@ "9" :> 9

RECURSIVE DigitsValue(_, _)
DigitsValue(s, acc) ==
    IF s = <<>> THEN acc
    ELSE IF Head(s) \in Digits
         THEN DigitsValue(Tail(s), 10 * acc + DigitVal[Head(s)])
         ELSE DigitsValue(Tail(s), acc)

InvalidDecimal == [valid |-> FALSE]

DecimalOf(s) ==
    LET neg   == s # <<>> /\ Head(s) = "-"
        body  == IF s # <<>> /\ Head(s) \in {"-", "+"} THEN Tail(s) ELSE s
        dots  == { k \in 1..Len(body) : body[k] = "." }
        ndig  == Cardinality({ k \in 1..Len(body) : body[k] \in Digits })
        frac  == IF dots = {} THEN 0 ELSE Len(body) - SetMax(dots)
    IN  IF \/ ndig = 0
           \/ Cardinality(dots) > 1
           \/ \E k \in 1..Len(body) : body[k] \notin Digits \cup {"."}
        THEN InvalidDecimal
        ELSE [valid |-> TRUE,
              sign  |-> IF neg THEN 1 ELSE 0,
              coef  |-> DigitsValue(body, 0),
              exp   |-> 0 - frac]

(***************************************************************************)
(* Lines 208-227: search the report text; return the three decimals or     *)
(* raise.                                                                  *)
(***************************************************************************)
\* Lines 218-223: the tuple of the three Decimal values.
ValuesOf(d1, d2, d3) ==
    IF d1.valid /\ d2.valid /\ d3.valid
    THEN [kind |-> "values", values |-> <<d1, d2, d3>>]
    ELSE [kind |-> "InvalidOperation"]

\* Lines 218-227 for the result m of the search.
OutcomeOf(text, m) ==
    IF m.ok
    THEN ValuesOf(DecimalOf(Group(text, m, 1)), DecimalOf(Group(text, m, 2)),
                  DecimalOf(Group(text, m, 3)))
    ELSE [kind |-> "SplatReportException", report_text |-> text]

ParseOutcome(text) == OutcomeOf(text, ReSearch(text))

(***************************************************************************)
(* The pieces of text the external tool may write into its report.         *)
(***************************************************************************)
ItwomX ==
    <<"I", "T", "W", "O", "M", " ", "V", "e", "r", "s", "i", "o", "n", " ",
      "3", "x", "0", " ", "p", "a", "t", "h", " ", "l", "o", "s", "s", ":",
      " ">>

ItwomLiteral ==
    <<"I", "T", "W", "O", "M", " ", "V", "e", "r", "s", "i", "o", "n", " ",
      "3", ".", "0", " ", "p", "a", "t", "h", " ", "l", "o", "s", "s", ":",
      " ">>

ReportPieces ==
    { FreeSpaceLabel \o <<"1", "0", "4", ".", "5", "5">> \o DbSuffix,
      FreeSpaceLabel \o <<"-", "1", "0", "4", ".", "5", "5">> \o DbSuffix,
      FreeSpaceLabel \o <<".">> \o DbSuffix,
      ItwomLiteral \o <<"1", "4", "1", ".", "8", "2">> \o DbSuffix,
      ItwomX \o <<"7", ".">> \o DbSuffix,
      <<"4", "2", ".", "5", "3">> \o FieldSuffix,
      <<"-", "1", "2", ".", "5", "0">> \o FieldSuffix,
      <<"u", "V", "/", "m", "e", "t", "e", "r">> }


(***************************************************************************)
(* The reference ordered scanner of the specification: three independent   *)
(* searches, each over the text that follows the previous match.           *)
(***************************************************************************)
\* The first label + (\d*\.\d*) + suffix at or after position p.
Found(text, b, e, suffix) ==
    [ok |-> TRUE, group |-> SubSeq(text, b, e - 1), next |-> e + Len(suffix)]

FirstFound(text, starts, label, suffix) ==
    IF starts = {} THEN NoMatch
    ELSE Found(text, SetMin(starts) + Len(label),
               SetMax(GroupEnds(text, SetMin(starts) + Len(label), suffix)),
               suffix)

FindFirst(text, p, label, suffix) ==
    FirstFound(text,
               { a \in p .. Len(text) :
                   /\ LitAt(text, a, label)
                   /\ GroupEnds(text, a + Len(label), suffix) # {} },
               label, suffix)

Scan3(r1, r2, r3) ==
    IF r3.ok
    THEN [ok |-> TRUE, groups |-> <<r1.group, r2.group, r3.group>>]
    ELSE NoMatch

Scan2(text, r1, r2) ==
    IF r2.ok
    THEN Scan3(r1, r2, FindFirst(text, r2.next, <<>>, FieldSuffix))
    ELSE NoMatch

Scan1(text, label, r1) ==
    IF r1.ok
    THEN Scan2(text, r1, FindFirst(text, r1.next, label, DbSuffix))
    ELSE NoMatch

Scan(text, label) ==
    Scan1(text, label, FindFirst(text, 1, FreeSpaceLabel, DbSuffix))

\* The three groups of the single search in the same form.
GroupsOf(text, m) ==
    IF m.ok
    THEN [ok |-> TRUE,
          groups |-> <<Group(text, m, 1), Group(text, m, 2),
                       Group(text, m, 3)>>]
    ELSE NoMatch

ReGroups(text) == GroupsOf(text, ReSearch(text))

(***************************************************************************)
(* SpecParse: the tool writes a report, lines 207-227 extract from it.     *)
(***************************************************************************)
NoOutcome == [kind |-> "none"]

\* The tool appends a piece of text to its report.
ToolEmit(piece) ==
    /\ rphase = "writing"
    /\ rpieces < MaxPieces
    /\ report' = report \o piece
    /\ rpieces' = rpieces + 1
    /\ UNCHANGED <<rphase, rmatch, routcome>>

\* Lines 207-227 on the finished report.
ReadReport ==
    /\ rphase = "writing"
    /\ rphase' = "parsed"
    /\ rmatch' = ReGroups(report)
    /\ routcome' = ParseOutcome(report)
    /\ UNCHANGED <<report, rpieces>>

(***************************************************************************)
(* The value objects (lines 54-124).  A geographic decimal is an exact     *)
(* multiple of 0.1 and is held as the integer number of tenths.            *)
(***************************************************************************)
Deg(n) == 10 * n

Lons == { 225 * k : k \in (0 - MaxSteps) .. MaxSteps }

\* Decimal.__mod__: the remainder takes the sign of the dividend.
DecimalRem(a, b) ==
    IF a >= 0 THEN a % b ELSE 0 - ((0 - a) % b)

NoObject == [made |-> FALSE]

\* Transmitter(...) built from Decimal values, which __post_init__ keeps as
\* they are (lines 55-78); the values of test1 except the longitude.
MakeTransmitter(lon) ==
    [made |-> TRUE, name |-> "Menesble", latitude |-> 478,
     longitude_WtoE |-> lon, height_m |-> 410,
     eirp_W |-> 800, frequency_MHz |-> 8000, polarization |-> 1,
     radio_climate |-> 5]

\* Receiver(...) built from Decimal values (lines 98-116).
MakeReceiver(lon) ==
    [made |-> TRUE, name |-> "Bure", latitude |-> 477,
     longitude_WtoE |-> lon, height_m |-> 20]

\* to_qthfields (lines 80-86 and 118-124).
ToQthFields(obj) ==
    [name |-> obj.name, latitude |-> obj.latitude,
     longitude_EtoW |-> DecimalRem(Deg(360) - obj.longitude_WtoE, Deg(360)),
     height_m |-> obj.height_m]

\* to_lrpfields (lines 88-94); erp_W = eirp_W / Decimal("1.64") is kept as
\* the quotient num/den, with the defaults of LRPFields (lines 40-44).
ToLrpFields(obj) ==
    [erp_W |-> [num |-> obj.eirp_W * 100, den |-> 10 * 164],
     frequency_MHz |-> obj.frequency_MHz,
     polarization |-> obj.polarization,
     radio_climate |-> obj.radio_climate]

\* The two most recent results of a projection.
Push(h, r) == IF Len(h) < 2 THEN Append(h, r) ELSE <<h[2], r>>

NewTransmitter(lon) ==
    /\ ~tx.made
    /\ tx' = MakeTransmitter(lon)
    /\ UNCHANGED <<rx, txQth, txLrp, rxQth>>

NewReceiver(lon) ==
    /\ ~rx.made
    /\ rx' = MakeReceiver(lon)
    /\ UNCHANGED <<tx, txQth, txLrp, rxQth>>

\* A to_qthfields that normalises the longitude of the object in place.
TxToQthFieldsInPlace ==
    /\ tx.made
    /\ txQth' = Push(txQth, ToQthFields(tx))
    /\ tx' = [tx EXCEPT !.longitude_WtoE = ToQthFields(tx).longitude_EtoW]
    /\ UNCHANGED <<rx, txLrp, rxQth>>

\* transmitter.to_qthfields()
TxToQthFields ==
    /\ tx.made
    /\ txQth' = Push(txQth, ToQthFields(tx))
    /\ UNCHANGED <<tx, rx, txLrp, rxQth>>

\* transmitter.to_lrpfields()
TxToLrpFields ==
    /\ tx.made
    /\ txLrp' = Push(txLrp, ToLrpFields(tx))
    /\ UNCHANGED <<tx, rx, txQth, rxQth>>

\* receiver.to_qthfields()
RxToQthFields ==
    /\ rx.made
    /\ rxQth' = Push(rxQth, ToQthFields(rx))
    /\ UNCHANGED <<tx, rx, txQth, txLrp>>

\* What splat_report_values does with the two objects (lines 172-180): it
\* calls the three projections to fill the templates.
SplatRendersInputs ==
    /\ tx.made /\ rx.made
    /\ txQth' = Push(txQth, ToQthFields(tx))
    /\ txLrp' = Push(txLrp, ToLrpFields(tx))
    /\ rxQth' = Push(rxQth, ToQthFields(rx))
    /\ UNCHANGED <<tx, rx>>

(***************************************************************************)
(* splat_report_values (lines 148-227), any number of invocations at once. *)
(***************************************************************************)
Invocations == 1..NumInv

\* The names of the transmitter and of the receiver of one call.
Links == { [t |-> "Menesble", r |-> "Bure"], [t |-> "Bure", r |-> "Bure"] }

\* Lines 161-163 and 145: the file names inside the workspace.
TxQthName(l) == <<"transmitter-", l.t, ".qth">>
TxLrpName(l) == <<"transmitter-", l.t, ".lrp">>
RxQthName(l) == <<"receiver-", l.r, ".qth">>
ReportName(l) == <<l.t, "-to-", l.r, ".txt">>

InputNames(l) == {TxQthName(l), TxLrpName(l), RxQthName(l)}

\* What the three input files hold once written (lines 172-180).
InputData(l, name) ==
    CASE name = TxQthName(l) -> <<"QTH", l.t>>
      [] name = TxLrpName(l) -> <<"LRP", l.t>>
      [] OTHER               -> <<"QTH", l.r>>

\* The reports the tool may write in a run of the pipeline: the report of
\* test1, and one that lacks the field strength.
GoodReport ==
    FreeSpaceLabel \o <<"1", "0", "4", ".", "5", "5">> \o DbSuffix \o <<"\n">>
    \o ItwomLiteral \o <<"1", "4", "1", ".", "8", "2">> \o DbSuffix \o <<"\n">>
    \o <<"4", "2", ".", "5", "3">> \o FieldSuffix

ShortReport ==
    FreeSpaceLabel \o <<"1", "0", "4", ".", "5", "5">> \o DbSuffix \o <<"\n">>
    \o ItwomLiteral \o <<"1", "4", "1", ".", "8", "2">> \o DbSuffix

ToolReports == {GoodReport, ShortReport}

\* Lines 208-227 applied to the text read from the report file.  The
\* outcomes for the reports above are tabulated once.
ParseTable == [t \in ToolReports |-> ParseOutcome(t)]

ReadOutcome(text) ==
    IF text \in DOMAIN ParseTable THEN ParseTable[text] ELSE ParseOutcome(text)

\* What the child printed on its standard output and standard error.
ToolOutputs == { [out |-> "", err |-> ""],
                 [out |-> "SPLAT! v1.4", err |-> "error reading site"] }

ExitCodes == {0, 1}

NoText == [present |-> FALSE]

NoLink == [t |-> "", r |-> ""]

NoChild == [state |-> "none"]

DirNames == 1..NumInv

EmptyFs == [dirs |-> <<>>, files |-> <<>>]

\* A fixed directory shared by all invocations.
MkdtempFixed(f) == SetMin(DirNames)

\* tempfile.mkdtemp under TemporaryDirectory (line 159): a directory name
\* that is not in use.  The names are interchangeable; the model takes the
\* least one.
Mkdtemp(f) == SetMin(DirNames \ DOMAIN f.dirs)

\* mkdir(d) by invocation i; an existing directory is left as it is.
WithDir(f, d, i) ==
    IF d \in DOMAIN f.dirs THEN f
    ELSE [f EXCEPT !.dirs = (d :> i) @@ f.dirs]

\* A file created or truncated (open(..., "w")) or rewritten at path.
WithFile(f, path, i, data) ==
    IF path \in DOMAIN f.files
    THEN [f EXCEPT !.files[path].data = data]
    ELSE [f EXCEPT !.files = (path :> [by |-> i, data |-> data]) @@ f.files]

\* A workspace made with mkdtemp alone: nothing removes it.
RemoveTreeLeak(f, d) == f

\* TemporaryDirectory.__exit__ (line 159): the directory and all in it go.
RemoveTree(f, d) ==
    [dirs  |-> [x \in DOMAIN f.dirs \ {d} |-> f.dirs[x]],
     files |-> [q \in { q \in DOMAIN f.files : q[1] # d } |-> f.files[q]]]

\* A timeout that raises without killing the child.
ChildAfterTimeoutNoKill(c) == c

\* subprocess.run(..., timeout=timeout) on expiry (lines 194-201): the child
\* is killed and waited for before TimeoutExpired is raised.
ChildAfterTimeout(c) == [state |-> "killed_and_reaped"]

\* subprocess.run without check=True: it returns whatever the status.
RunResultUnchecked(code, o) == [kind |-> "returned"]

\* subprocess.run(..., capture_output=True, check=True) when the child has
\* exited (lines 194-201): CalledProcessError on a non-zero status.
RunResult(code, o) ==
    IF code # 0
    THEN [kind |-> "CalledProcessError", returncode |-> code,
          stdout |-> o.out, stderr |-> o.err]
    ELSE [kind |-> "returned"]

\* The tool started inside the with-block, before the files are closed.
ReadyToRunEarly(i) == pc[i] \in {"written", "closed"}

\* The with-block of lines 165-171 has closed the three files before line
\* 182 is reached.
ReadyToRun(i) == pc[i] = "closed"

Log(i, events) == [trace EXCEPT ![i] = @ \o events]

\* The call ends with `result` (a return or an exception): control leaves
\* the TemporaryDirectory block of line 159, which removes the workspace,
\* and the frame with its arguments and locals is gone.
Leave(i, result, events) ==
    /\ fs' = RemoveTree(fs, wsdir[i])
    /\ outcome' = [outcome EXCEPT ![i] = result]
    /\ pc' = [pc EXCEPT ![i] = "done"]
    /\ trace' = Log(i, events \o <<"destroy">>)
    /\ wsdir' = [wsdir EXCEPT ![i] = 0]
    /\ link' = [link EXCEPT ![i] = NoLink]

\* Line 159: the call begins, the workspace is acquired.
Call(i, l) ==
    /\ pc[i] = "idle"
    /\ DirNames \ DOMAIN fs.dirs # {}
    /\ wsdir' = [wsdir EXCEPT ![i] = Mkdtemp(fs)]
    /\ fs' = WithDir(fs, Mkdtemp(fs), i)
    /\ link' = [link EXCEPT ![i] = l]
    /\ pc' = [pc EXCEPT ![i] = "acquired"]
    /\ trace' = Log(i, <<"acquire">>)
    /\ UNCHANGED <<handles, child, written, outcome>>

\* Lines 165-171: the three input files are opened for writing.
OpenInputs(i) ==
    /\ pc[i] = "acquired"
    /\ fs' = WithFile(WithFile(WithFile(fs,
                <<wsdir[i], TxQthName(link[i])>>, i, <<>>),
                <<wsdir[i], TxLrpName(link[i])>>, i, <<>>),
                <<wsdir[i], RxQthName(link[i])>>, i, <<>>)
    /\ handles' = [handles EXCEPT ![i] = InputNames(link[i])]
    /\ pc' = [pc EXCEPT ![i] = "opened"]
    /\ trace' = Log(i, <<"open">>)
    /\ UNCHANGED <<link, wsdir, child, written, outcome>>

\* Lines 165-171: open() raises OSError.
OpenInputsFails(i) ==
    /\ pc[i] = "acquired"
    /\ Leave(i, [kind |-> "OSError"], <<"open_failed">>)
    /\ UNCHANGED <<handles, child, written>>

\* Lines 172-180: the three templates are written.
WriteInputs(i) ==
    /\ pc[i] = "opened"
    /\ fs' = WithFile(WithFile(WithFile(fs,
                <<wsdir[i], TxQthName(link[i])>>, i,
                    InputData(link[i], TxQthName(link[i]))),
                <<wsdir[i], TxLrpName(link[i])>>, i,
                    InputData(link[i], TxLrpName(link[i]))),
                <<wsdir[i], RxQthName(link[i])>>, i,
                    InputData(link[i], RxQthName(link[i])))
    /\ pc' = [pc EXCEPT ![i] = "written"]
    /\ trace' = Log(i, <<"write">>)
    /\ UNCHANGED <<link, wsdir, handles, child, written, outcome>>

\* The end of the with-block of lines 165-180: the three files are closed.
CloseInputs(i) ==
    /\ pc[i] = "written"
    /\ handles' = [handles EXCEPT ![i] = {}]
    /\ pc' = [pc EXCEPT ![i] = "closed"]
    /\ trace' = Log(i, <<"close">>)
    /\ UNCHANGED <<link, wsdir, fs, child, written, outcome>>

\* Lines 194-201: subprocess.run starts the tool with cwd = the workspace.
\* The child record keeps what the tool finds as it starts.
ToolStart(i) ==
    /\ ReadyToRun(i)
    /\ child[i].state = "none"
    /\ child' = [child EXCEPT ![i] =
                    [state |-> "running", cwd |-> wsdir[i],
                     inputsClosed |-> handles[i] = {},
                     inputs |-> { n \in InputNames(link[i]) :
                                    /\ <<wsdir[i], n>> \in DOMAIN fs.files
                                    /\ fs.files[<<wsdir[i], n>>].data
                                         = InputData(link[i], n) }]]
    /\ pc' = [pc EXCEPT ![i] = "running"]
    /\ trace' = Log(i, <<"start">>)
    /\ UNCHANGED <<link, wsdir, fs, handles, written, outcome>>

\* The tool writes its report into its working directory.
ToolWritesReport(i, text) ==
    /\ child[i].state = "running"
    /\ written[i] = NoText
    /\ child[i].cwd \in DOMAIN fs.dirs
    /\ fs' = WithFile(fs, <<child[i].cwd, ReportName(link[i])>>, i, text)
    /\ written' = [written EXCEPT ![i] = [present |-> TRUE, text |-> text]]
    /\ UNCHANGED <<pc, link, wsdir, handles, child, outcome, trace>>

\* subprocess.run returns to line 203 (with check=True: after exit status 0).
ToolExitsReturned(i, code, o) ==
    /\ pc' = [pc EXCEPT ![i] = "ran"]
    /\ trace' = Log(i, <<IF code = 0 THEN "exit_zero" ELSE "exit_nonzero">>)
    /\ UNCHANGED <<fs, outcome, wsdir, link>>

\* The tool exits; subprocess.run returns, or raises CalledProcessError.
ToolExits(i, code, o) ==
    /\ child[i].state = "running"
    /\ pc[i] = "running"
    /\ child' = [child EXCEPT ![i] =
                    [state |-> "exited", returncode |-> code, printed |-> o]]
    /\ IF RunResult(code, o).kind = "returned"
       THEN ToolExitsReturned(i, code, o)
       ELSE Leave(i, RunResult(code, o), <<"exit_nonzero">>)
    /\ UNCHANGED <<handles, written>>

\* The timeout expires while the tool runs: TimeoutExpired is raised.
TimeoutExpires(i) ==
    /\ child[i].state = "running"
    /\ pc[i] = "running"
    /\ child' = [child EXCEPT ![i] = ChildAfterTimeout(@)]
    /\ Leave(i, [kind |-> "TimeoutExpired"], <<"timeout">>)
    /\ UNCHANGED <<handles, written>>

\* Lines 203-227: the report is opened, read and searched; the values are
\* returned or an exception is raised.
ReadAndParse(i) ==
    /\ pc[i] = "ran"
    /\ IF <<wsdir[i], ReportName(link[i])>> \in DOMAIN fs.files
       THEN Leave(i,
                  ReadOutcome(fs.files[<<wsdir[i], ReportName(link[i])>>].data),
                  <<"read", "parse">>)
       ELSE Leave(i, [kind |-> "FileNotFoundError"], <<"read_failed">>)
    /\ UNCHANGED <<handles, child, written>>

(***************************************************************************)
(* The initial state and the three specifications.                         *)
(***************************************************************************)
Init ==
    /\ pc = [i \in Invocations |-> "idle"]
    /\ link = [i \in Invocations |-> NoLink]
    /\ wsdir = [i \in Invocations |-> 0]
    /\ fs = EmptyFs
    /\ handles = [i \in Invocations |-> {}]
    /\ child = [i \in Invocations |-> NoChild]
    /\ written = [i \in Invocations |-> NoText]
    /\ outcome = [i \in Invocations |-> NoOutcome]
    /\ trace = [i \in Invocations |-> <<>>]
    /\ report = <<>>
    /\ rpieces = 0
    /\ rphase = "writing"
    /\ rmatch = NoMatch
    /\ routcome = NoOutcome
    /\ tx = NoObject
    /\ rx = NoObject
    /\ txQth = <<>>
    /\ txLrp = <<>>
    /\ rxQth = <<>>

Next ==
    \/ \E i \in Invocations, l \in Links : Call(i, l) /\ UNCHANGED <<rvars, gvars>>
    \/ \E i \in Invocations : OpenInputs(i) /\ UNCHANGED <<rvars, gvars>>
    \/ \E i \in Invocations : OpenInputsFails(i) /\ UNCHANGED <<rvars, gvars>>
    \/ \E i \in Invocations : WriteInputs(i) /\ UNCHANGED <<rvars, gvars>>
    \/ \E i \in Invocations : CloseInputs(i) /\ UNCHANGED <<rvars, gvars>>
    \/ \E i \in Invocations : ToolStart(i) /\ UNCHANGED <<rvars, gvars>>
    \/ \E i \in Invocations, text \in ToolReports :
          ToolWritesReport(i, text) /\ UNCHANGED <<rvars, gvars>>
    \/ \E i \in Invocations, code \in ExitCodes, o \in ToolOutputs :
          ToolExits(i, code, o) /\ UNCHANGED <<rvars, gvars>>
    \/ \E i \in Invocations : TimeoutExpires(i) /\ UNCHANGED <<rvars, gvars>>
    \/ \E i \in Invocations : ReadAndParse(i) /\ UNCHANGED <<rvars, gvars>>

Spec == Init /\ [][Next]_vars

NextParse ==
    \/ \E piece \in ReportPieces : ToolEmit(piece) /\ UNCHANGED <<pvars, gvars>>
    \/ ReadReport /\ UNCHANGED <<pvars, gvars>>

SpecParse == Init /\ [][NextParse]_vars

NextGeo ==
    \/ \E lon \in Lons : NewTransmitter(lon) /\ UNCHANGED <<pvars, rvars>>
    \/ \E lon \in Lons : NewReceiver(lon) /\ UNCHANGED <<pvars, rvars>>
    \/ TxToQthFields /\ UNCHANGED <<pvars, rvars>>
    \/ TxToLrpFields /\ UNCHANGED <<pvars, rvars>>
    \/ RxToQthFields /\ UNCHANGED <<pvars, rvars>>
    \/ SplatRendersInputs /\ UNCHANGED <<pvars, rvars>>

SpecGeo == Init /\ [][NextGeo]_vars

(***************************************************************************)
(* The claims.                                                             *)
(***************************************************************************)
InTrace(i, ev) == \E k \in 1..Len(trace[i]) : trace[i][k] = ev

Count(seq, ev) == Cardinality({ k \in 1..Len(seq) : seq[k] = ev })

Active(i) == pc[i] \notin {"idle", "done"}

\* Nothing that invocation i or its tool created is left on disk.
NothingLeft(i) ==
    /\ \A d \in DOMAIN fs.dirs : fs.dirs[d] # i
    /\ \A q \in DOMAIN fs.files : fs.files[q].by # i

\* C1: once an invocation has returned or raised, on whichever exit path,
\* its workspace directory and every file created in it are gone.
C1_WorkspaceRemoved ==
    \A i \in Invocations : pc[i] = "done" => NothingLeft(i)

\* C1 witness: one invocation ended on a parse failure after its tool wrote
\* a report, another on a timeout.
C1_Witness ==
    \E i, j \in Invocations :
        /\ pc[i] = "done" /\ outcome[i].kind = "SplatReportException"
        /\ written[i].present
        /\ pc[j] = "done" /\ outcome[j].kind = "TimeoutExpired"

\* C5: when the timeout expires while the tool runs, the call fails with
\* TimeoutExpired, the child has been killed and reaped, the report is never
\* read, the tool was started once only, and no workspace remains.
C5_Timeout ==
    \A i \in Invocations :
        InTrace(i, "timeout") =>
            /\ pc[i] = "done"
            /\ outcome[i].kind = "TimeoutExpired"
            /\ child[i].state = "killed_and_reaped"
            /\ ~InTrace(i, "read") /\ ~InTrace(i, "read_failed")
            /\ Count(trace[i], "start") = 1
            /\ NothingLeft(i)

\* C5 witness: a timeout after the tool had already written a report.
C5_Witness ==
    \E i \in Invocations : InTrace(i, "timeout") /\ written[i].present

\* C6: when the tool exits with a non-zero status the call fails with
\* CalledProcessError carrying what the child wrote to its standard output
\* and standard error, and the report is never opened, even if one exists.
C6_NonZeroExit ==
    \A i \in Invocations :
        InTrace(i, "exit_nonzero") =>
            /\ pc[i] = "done"
            /\ outcome[i].kind = "CalledProcessError"
            /\ outcome[i].stdout = child[i].printed.out
            /\ outcome[i].stderr = child[i].printed.err
            /\ ~InTrace(i, "read") /\ ~InTrace(i, "read_failed")

\* C6 witness: a non-zero exit of a tool that printed something and had
\* written a report.
C6_Witness ==
    \E i \in Invocations :
        /\ InTrace(i, "exit_nonzero")
        /\ written[i].present
        /\ outcome[i].stderr # ""

\* The outcome invocation i has when it runs alone: decided by how its own
\* tool ended and by what its own tool wrote.
AloneOutcome(i) ==
    CASE InTrace(i, "open_failed") -> [kind |-> "OSError"]
      [] InTrace(i, "timeout")     -> [kind |-> "TimeoutExpired"]
      [] InTrace(i, "exit_nonzero") ->
            [kind |-> "CalledProcessError",
             returncode |-> child[i].returncode,
             stdout |-> child[i].printed.out,
             stderr |-> child[i].printed.err]
      [] OTHER ->
            IF written[i].present
            THEN ReadOutcome(written[i].text)
            ELSE [kind |-> "FileNotFoundError"]

\* C7: concurrent invocations hold distinct workspaces, every file lies in
\* the workspace of the invocation that created it, and each invocation
\* ends as it would have ended alone.
C7_Isolation ==
    /\ \A i, j \in Invocations :
          (i # j /\ Active(i) /\ Active(j)) => wsdir[i] # wsdir[j]
    /\ \A q \in DOMAIN fs.files :
          /\ Active(fs.files[q].by)
          /\ q[1] = wsdir[fs.files[q].by]
    /\ \A i \in Invocations : pc[i] = "done" => outcome[i] = AloneOutcome(i)

\* C7 witness: two invocations with the same transmitter and receiver names
\* whose tools wrote different reports under the same file name.
C7_Witness ==
    \E i, j \in Invocations :
        /\ i # j
        /\ pc[i] = "ran" /\ pc[j] = "ran"
        /\ link[i] = link[j]
        /\ written[i].present /\ written[j].present
        /\ written[i].text # written[j].text

IsPrefix(s, t) == Len(s) <= Len(t) /\ s = SubSeq(t, 1, Len(s))

Prepared == <<"acquire", "open", "write", "close", "start">>

\* The orders in which a call can take its steps from start to end.
FullTraces ==
    { <<"acquire", "open_failed", "destroy">>,
      Prepared \o <<"timeout", "destroy">>,
      Prepared \o <<"exit_nonzero", "destroy">>,
      Prepared \o <<"exit_zero", "read_failed", "destroy">>,
      Prepared \o <<"exit_zero", "read", "parse", "destroy">> }

\* C9: the steps of one invocation come in a fixed order: acquire, open,
\* write and close the three input files, start the tool in the workspace,
\* read the report only after exit status 0, parse it, destroy the workspace.
C9_StepOrder ==
    \A i \in Invocations :
        /\ \E t \in FullTraces : IsPrefix(trace[i], t)
        /\ child[i].state = "running" =>
              /\ child[i].cwd = wsdir[i]
              /\ child[i].inputsClosed
              /\ child[i].inputs = InputNames(link[i])

\* C9 witness: a call that went through every step and returned values.
C9_Witness ==
    \E i \in Invocations :
        /\ trace[i] = Prepared \o <<"exit_zero", "read", "parse", "destroy">>
        /\ outcome[i].kind = "values"

\* The search fails to locate the three patterns in order.
NotLocated(text) == ~Scan(text, ItwomLabel).ok

\* C2: extraction is all-or-nothing: the outcome is either the three
\* decimals or SplatReportException carrying the whole report text, and it
\* is that exception whenever the three patterns are not found in order.
C2_AllOrNothing ==
    rphase = "parsed" =>
        /\ \/ /\ routcome.kind = "values"
              /\ Len(routcome.values) = 3
           \/ /\ routcome.kind = "SplatReportException"
              /\ routcome.report_text = report
        /\ NotLocated(report) => routcome.kind = "SplatReportException"

\* C3: the single search returns what the reference scanner returns, which
\* looks for the label "ITWOM Version 3.0 path loss: " as written.
C3_SearchEqualsScanner ==
    rphase = "parsed" => rmatch = Scan(report, ItwomLiteral)

\* The single search agrees with the scanner once the scanner, too, takes
\* any character between "3" and "0" of the ITWOM label.
SearchEqualsPatternScanner ==
    rphase = "parsed" => rmatch = Scan(report, ItwomLabel)

\* C10: every decimal returned is non-negative: the groups hold digits and
\* a point only, so a minus sign before a number is never part of it.
C10_NonNegative ==
    (rphase = "parsed" /\ routcome.kind = "values") =>
        /\ \A n \in 1..3 : routcome.values[n].sign = 0
        /\ \A n \in 1..3 : \A k \in 1..Len(rmatch.groups[n]) :
              rmatch.groups[n][k] \in Digits \cup {"."}

\* C10 witness: "-12.50 dBuV/meter" in the report, 12.50 returned.
C10_Witness ==
    /\ rphase = "parsed"
    /\ routcome.kind = "values"
    /\ routcome.values[3] = [valid |-> TRUE, sign |-> 0, coef |-> 1250,
                             exp |-> 0 - 2]
    /\ ReSearch(report).s3 > 1
    /\ report[ReSearch(report).s3 - 1] = "-"

\* The mathematical (360 - lon) mod 360, which lies in [0, 360).
FloorMod(a, b) == a % b

InRange(q, obj) ==
    /\ q.longitude_EtoW = FloorMod(Deg(360) - obj.longitude_WtoE, Deg(360))
    /\ 0 <= q.longitude_EtoW
    /\ q.longitude_EtoW < Deg(360)

\* C4: whatever longitude_WtoE is, to_qthfields().longitude_EtoW equals
\* (360 - longitude_WtoE) mod 360 and lies in [0, 360).
C4_LongitudeInRange ==
    /\ \A k \in 1..Len(txQth) : InRange(txQth[k], tx)
    /\ \A k \in 1..Len(rxQth) : InRange(rxQth[k], rx)

\* C8: once constructed, a Transmitter or Receiver is never changed by
\* to_qthfields, to_lrpfields or the pipeline, and two calls of a projection
\* on the same object return equal results.
C8_ReadOnly ==
    /\ [][ /\ tx.made => tx' = tx
           /\ rx.made => rx' = rx ]_vars
    /\ [](Len(txQth) = 2 => txQth[1] = txQth[2])
    /\ [](Len(txLrp) = 2 => txLrp[1] = txLrp[2])
    /\ [](Len(rxQth) = 2 => rxQth[1] = rxQth[2])

\* C8 witness: both objects made and each projection called twice.
C8_Witness ==
    /\ tx.made /\ rx.made
    /\ Len(txQth) = 2 /\ Len(txLrp) = 2 /\ Len(rxQth) = 2

=============================================================================
